---------------------------- MODULE Spec2Model ----------------------------
(***************************************************************************)
(* Model of the sparse matrix template of src/src/sparse_matrix.hpp and    *)
(* of the driver of src/src/main.cpp.                                      *)
(*                                                                         *)
(* A std::map<index_t, value_type_t> is a sequence of nodes                *)
(* [first |-> key, second |-> value] kept in ascending key order; a map    *)
(* iterator is a position 1..Len+1, Len+1 being end().  A matrix object is *)
(* named by a string; mats maps every constructed object to its data_.     *)
(***************************************************************************)
EXTENDS Integers, Sequences, FiniteSets, TLC

\* ---- bounds of the model -------------------------------------------------
MaxIndex == 1
MaxValue == 1
MaxTotal == 2

\* ---- template parameters and constants of the program ---------------------
default_value == 0
matrix_size == 2
num_elem == 10
m_size == 10

Index == 0..MaxIndex
Value == 0..MaxValue
index_t == [1..matrix_size -> Index]
Names == {"a", "b"}

\* The coordinates the two-matrix specification writes: those of row 0.
Row0 == {c \in index_t : c[1] = 0}

VARIABLES mats, last, copyOf, pc, i, j, it, count_step

vars == <<mats, last, copyOf, pc, i, j, it, count_step>>

\* ---- std::tuple and std::map ----------------------------------------------

\* Variant of TupleLess: the last differing component decides.
TupleLessFromLast(x, y) ==
  \E k \in 1..Len(x) :
     /\ x[k] < y[k]
     /\ \A n \in (k + 1)..Len(x) : x[n] = y[n]

\* std::tuple operator< : the first differing component decides.
TupleLess(x, y) ==
  \E k \in 1..Len(x) :
     /\ x[k] < y[k]
     /\ \A n \in 1..(k - 1) : x[n] = y[n]

\* std::map::lower_bound: first position whose key is not less than k.
LowerBound(d, k) ==
  LET notLess == {p \in 1..Len(d) : ~TupleLess(d[p].first, k)}
  IN  IF notLess = {} THEN Len(d) + 1
      ELSE CHOOSE p \in notLess : \A q \in notLess : p <= q

MapEnd(d) == Len(d) + 1

MapBegin(d) == 1

\* std::map::find: position of the node with key k, or end().
MapFind(d, k) ==
  LET p == LowerBound(d, k)
  IN  IF p <= Len(d) /\ ~TupleLess(k, d[p].first) THEN p ELSE MapEnd(d)

InsertAt(d, p, node) ==
  SubSeq(d, 1, p - 1) \o <<node>> \o SubSeq(d, p, Len(d))

\* Variant of MapSubscriptAssign: a new node is inserted even when the key
\* is already present (the insertion of a std::multimap).
MapInsertAlways(d, k, v) ==
  InsertAt(d, LowerBound(d, k), [first |-> k, second |-> v])

\* data_[k] = v : std::map::operator[] followed by the assignment.
MapSubscriptAssign(d, k, v) ==
  LET p == LowerBound(d, k)
  IN  IF p <= Len(d) /\ ~TupleLess(k, d[p].first)
      THEN [d EXCEPT ![p] = [first |-> k, second |-> v]]
      ELSE InsertAt(d, p, [first |-> k, second |-> v])

\* Variant of MapErase: the node stays.
MapEraseNothing(d, p) == d

\* std::map::erase(iterator)
MapErase(d, p) == SubSeq(d, 1, p - 1) \o SubSeq(d, p + 1, Len(d))

\* std::map operator== : same size and equal nodes position by position.
MapEq(d, e) ==
  /\ Len(d) = Len(e)
  /\ \A p \in 1..Len(d) : d[p] = e[p]


\* ---- sparse_matrix: size, comparison, index proxies -----------------------

\* sparse_matrix::size
Size(d) == Len(d)

\* sparse_matrix::operator==
OpEq(d, e) == MapEq(d, e)

\* sparse_matrix::operator[] : the first proxy, bound to one component and
\* holding a reference to the data_ of matrix m.
OpIndex(m, index) == [data_ |-> m, index_view_ |-> <<index>>]

\* index_matrix<num>::operator[] : the prefix extended by one component.
NextIndex(p, index) ==
  [data_ |-> p.data_, index_view_ |-> Append(p.index_view_, index)]

RECURSIVE Bind(_, _, _)
Bind(p, c, k) ==
  IF k > Len(c) THEN p ELSE Bind(NextIndex(p, c[k]), c, k + 1)

\* m[c[1]][c[2]]...[c[matrix_size]] : the terminal proxy.
Proxy(m, c) == Bind(OpIndex(m, c[1]), c, 2)

\* Variant of TerminalAssign: no elision, the default is stored like any value.
TerminalAssignNoElision(ms, p, value) ==
  [ms EXCEPT ![p.data_] = MapSubscriptAssign(@, p.index_view_, value)]

\* Variant of TerminalAssign: one container shared by every matrix.
TerminalAssignShared(ms, p, value) ==
  [n \in DOMAIN ms |->
     IF value # default_value
     THEN MapSubscriptAssign(ms[n], p.index_view_, value)
     ELSE LET found == MapFind(ms[n], p.index_view_)
          IN  IF found # MapEnd(ms[n]) THEN MapErase(ms[n], found) ELSE ms[n]]

\* index_matrix<0>::operator= : the stores after  proxy = value.
TerminalAssign(ms, p, value) ==
  IF value # default_value
  THEN [ms EXCEPT ![p.data_] = MapSubscriptAssign(@, p.index_view_, value)]
  ELSE LET found == MapFind(ms[p.data_], p.index_view_)
       IN  IF found # MapEnd(ms[p.data_])
           THEN [ms EXCEPT ![p.data_] = MapErase(@, found)]
           ELSE ms

\* index_matrix<0>::operator const value_type_t &
TerminalRead(ms, p) ==
  LET found == MapFind(ms[p.data_], p.index_view_)
  IN  IF found # MapEnd(ms[p.data_])
      THEN ms[p.data_][found].second
      ELSE default_value

\* ---- iterator_matrix / const_iterator_matrix ------------------------------

\* begin(), cbegin()
IterBegin(d) == MapBegin(d)

\* end(), cend()
IterEnd(d) == MapEnd(d)

\* operator++
IterNext(p) == p + 1

\* operator* : std::tuple_cat(first, std::tie(second))
IterDeref(d, p) == d[p].first \o <<d[p].second>>

\* Variant of IterAssign: the write goes through the elision of operator=.
IterAssignElide(d, p, v) ==
  IF v # default_value THEN [d EXCEPT ![p].second = v] ELSE MapErase(d, p)

\* std::get<matrix_size>(*it) = v on an iterator_matrix: the tuple's last
\* component is a reference to the node's value.
IterAssign(d, p, v) == [d EXCEPT ![p].second = v]

RECURSIVE Walk(_, _)
Walk(d, p) ==
  IF p = IterEnd(d) THEN <<>>
  ELSE <<IterDeref(d, p)>> \o Walk(d, IterNext(p))

\* for (auto it = begin(); it != end(); ++it) collect *it
Enumerate(d) == Walk(d, IterBegin(d))

\* ---- bookkeeping ----------------------------------------------------------

RECURSIVE SumLen(_, _)
SumLen(ms, S) ==
  IF S = {} THEN 0
  ELSE LET n == CHOOSE x \in S : TRUE
       IN  Len(ms[n]) + SumLen(ms, S \ {n})

\* Number of nodes of all constructed matrices together.
Total(ms) == SumLen(ms, DOMAIN ms)

Without(ms, m) == [n \in (DOMAIN ms) \ {m} |-> ms[n]]

With(ms, m, d) == [n \in (DOMAIN ms) \cup {m} |-> IF n = m THEN d ELSE ms[n]]

\* The last call made and what it returned.
Call(op, m, r) == [op |-> op, m |-> m, ret |-> r]

Idle == /\ pc = "api" /\ UNCHANGED <<pc, i, j, it, count_step>>

\* copyOf = <<src, dst>> while dst is the latest copy made of src and both
\* objects are still those of the copy.
Forget(m) == IF m \in {copyOf[k] : k \in DOMAIN copyOf} THEN <<>> ELSE copyOf

\* ---- public operations ----------------------------------------------------

\* sparse_matrix()
Construct(m) ==
  /\ Idle
  /\ m \notin DOMAIN mats
  /\ mats' = With(mats, m, <<>>)
  /\ last' = Call("construct", m, default_value)
  /\ copyOf' = Forget(m)

\* ~sparse_matrix()
Destroy(m) ==
  /\ Idle
  /\ m \in DOMAIN mats
  /\ mats' = Without(mats, m)
  /\ last' = Call("destroy", m, default_value)
  /\ copyOf' = Forget(m)

\* m[c] = v
Assign(m, c, v) ==
  /\ Idle
  /\ m \in DOMAIN mats
  /\ \/ v = default_value
     \/ MapFind(mats[m], c) # MapEnd(mats[m])
     \/ Total(mats) < MaxTotal
  /\ mats' = TerminalAssign(mats, Proxy(m, c), v)
  /\ last' = Call("assign", m, default_value)
  /\ UNCHANGED copyOf

\* Variant of Read: the lookup is data_[index_view_], which inserts a node
\* holding the default when the key is absent.
ReadSubscript(m, c) ==
  /\ Idle
  /\ m \in DOMAIN mats
  /\ last' = Call("read", m, TerminalRead(mats, Proxy(m, c)))
  /\ mats' = IF MapFind(mats[m], c) # MapEnd(mats[m])
             THEN mats
             ELSE [mats EXCEPT ![m] = MapSubscriptAssign(@, c, default_value)]
  /\ UNCHANGED copyOf

\* value_type_t x = m[c]
Read(m, c) ==
  /\ Idle
  /\ m \in DOMAIN mats
  /\ last' = Call("read", m, TerminalRead(mats, Proxy(m, c)))
  /\ UNCHANGED <<mats, copyOf>>

\* m.clear()
Clear(m) ==
  /\ Idle
  /\ m \in DOMAIN mats
  /\ mats' = [mats EXCEPT ![m] = <<>>]
  /\ last' = Call("clear", m, default_value)
  /\ UNCHANGED copyOf

\* auto it = m.begin(); ++it (k - 1 times); std::get<matrix_size>(*it) = v
IterWrite(m, k, v) ==
  /\ Idle
  /\ m \in DOMAIN mats
  /\ k \in 1..Len(mats[m])
  /\ mats' = [mats EXCEPT ![m] = IterAssign(@, k, v)]
  /\ last' = Call("iterwrite", m, default_value)
  /\ UNCHANGED copyOf

\* sparse_matrix dst(src)
CopyConstruct(src, dst) ==
  /\ Idle
  /\ src \in DOMAIN mats
  /\ dst \notin DOMAIN mats
  /\ Total(mats) + Len(mats[src]) <= MaxTotal
  /\ mats' = With(mats, dst, mats[src])
  /\ last' = Call("copy", dst, default_value)
  /\ copyOf' = <<src, dst>>

\* dst = src; the guard *this != other is the negation of operator==, the
\* only comparison the class defines.
CopyAssign(src, dst) ==
  /\ Idle
  /\ src \in DOMAIN mats
  /\ dst \in DOMAIN mats
  /\ Total(mats) - Len(mats[dst]) + Len(mats[src]) <= MaxTotal
  /\ mats' = IF ~OpEq(mats[dst], mats[src])
             THEN [mats EXCEPT ![dst] = mats[src]]
             ELSE mats
  /\ last' = Call("copy", dst, default_value)
  /\ copyOf' = IF src # dst THEN <<src, dst>> ELSE Forget(dst)

\* sparse_matrix dst(std::move(src))
MoveConstruct(src, dst) ==
  /\ Idle
  /\ src \in DOMAIN mats
  /\ dst \notin DOMAIN mats
  /\ mats' = With([mats EXCEPT ![src] = <<>>], dst, mats[src])
  /\ last' = Call("move", dst, default_value)
  /\ copyOf' = <<>>

\* Variant of MoveAssign: the source keeps its nodes.
MoveAssignKeepSource(src, dst) ==
  /\ Idle
  /\ src \in DOMAIN mats
  /\ dst \in DOMAIN mats
  /\ mats' = [mats EXCEPT ![dst] = mats[src]]
  /\ last' = Call("move", dst, default_value)
  /\ copyOf' = <<>>

\* dst = std::move(src); a self-move leaves the map valid but unspecified:
\* emptied or untouched, depending on the standard library.
MoveAssign(src, dst) ==
  /\ Idle
  /\ src \in DOMAIN mats
  /\ dst \in DOMAIN mats
  /\ IF src # dst
     THEN mats' = [mats EXCEPT ![dst] = mats[src], ![src] = <<>>]
     ELSE \E d \in {<<>>, mats[src]} : mats' = [mats EXCEPT ![src] = d]
  /\ last' = Call("move", dst, default_value)
  /\ copyOf' = <<>>

\* ---- one matrix, every coordinate -----------------------------------------

Init ==
  /\ mats = [n \in {"a"} |-> <<>>]
  /\ last = Call("construct", "a", default_value)
  /\ copyOf = <<>>
  /\ pc = "api"
  /\ i = 0
  /\ j = 0
  /\ it = 0
  /\ count_step = 0

Next ==
  \/ \E c \in index_t, v \in Value : Assign("a", c, v)
  \/ \E c \in index_t : Read("a", c)
  \/ Clear("a")
  \/ \E k \in 1..MaxTotal, v \in Value : IterWrite("a", k, v)

Spec == Init /\ [][Next]_vars

\* ---- two matrices, the coordinates of row 0 -------------------------------

NextPair ==
  \/ \E m \in Names : Construct(m)
  \/ \E m \in Names : Destroy(m)
  \/ \E m \in Names, c \in Row0, v \in Value : Assign(m, c, v)
  \/ \E m \in Names, c \in Row0 : Read(m, c)
  \/ \E m \in Names : Clear(m)
  \/ \E m \in Names, k \in 1..MaxTotal, v \in Value : IterWrite(m, k, v)
  \/ \E src \in Names, dst \in Names : CopyConstruct(src, dst)
  \/ \E src \in Names, dst \in Names : CopyAssign(src, dst)
  \/ \E src \in Names, dst \in Names : MoveConstruct(src, dst)
  \/ \E src \in Names, dst \in Names : MoveAssign(src, dst)

SpecPair == Init /\ [][NextPair]_vars

\* ---- main() ---------------------------------------------------------------

InitMain ==
  /\ mats = [n \in {"matrix"} |-> <<>>]
  /\ last = Call("construct", "matrix", default_value)
  /\ copyOf = <<>>
  /\ pc = "diag"
  /\ i = 0
  /\ j = 0
  /\ it = 0
  /\ count_step = 0

\* matrix[i][i] = i
MainDiag ==
  /\ pc = "diag"
  /\ mats' = TerminalAssign(mats, Proxy("matrix", <<i, i>>), i)
  /\ last' = Call("assign", "matrix", default_value)
  /\ IF i + 1 < num_elem
     THEN i' = i + 1 /\ pc' = pc
     ELSE i' = 0 /\ pc' = "anti"
  /\ UNCHANGED <<copyOf, j, it, count_step>>

\* matrix[i][(num_elem - 1) - i] = (num_elem - 1) - i
MainAnti ==
  /\ pc = "anti"
  /\ mats' = TerminalAssign(mats,
                            Proxy("matrix", <<i, (num_elem - 1) - i>>),
                            (num_elem - 1) - i)
  /\ last' = Call("assign", "matrix", default_value)
  /\ IF i + 1 < num_elem
     THEN i' = i + 1 /\ pc' = pc /\ j' = j
     ELSE i' = 1 /\ j' = 1 /\ pc' = "range"
  /\ UNCHANGED <<copyOf, it, count_step>>

\* std::cout << matrix[i][j] for i, j in 1..8
MainRange ==
  /\ pc = "range"
  /\ last' = Call("read", "matrix", TerminalRead(mats, Proxy("matrix", <<i, j>>)))
  /\ IF j + 1 <= 8
     THEN j' = j + 1 /\ i' = i /\ pc' = pc
     ELSE IF i + 1 <= 8
          THEN j' = 1 /\ i' = i + 1 /\ pc' = pc
          ELSE j' = 0 /\ i' = 0 /\ pc' = "size"
  /\ UNCHANGED <<mats, copyOf, it, count_step>>

\* std::cout << matrix.size()
MainSize ==
  /\ pc = "size"
  /\ last' = Call("size", "matrix", Size(mats["matrix"]))
  /\ it' = IterBegin(mats["matrix"])
  /\ pc' = "enum1"
  /\ UNCHANGED <<mats, copyOf, i, j, count_step>>

\* for (const std::tuple<size_t, size_t, int> &elem : matrix)
MainEnum1 ==
  /\ pc = "enum1"
  /\ IF it # IterEnd(mats["matrix"])
     THEN /\ last' = Call("elem", "matrix", IterDeref(mats["matrix"], it))
          /\ it' = IterNext(it)
          /\ pc' = pc
     ELSE /\ last' = last
          /\ it' = 0
          /\ pc' = "copy"
  /\ UNCHANGED <<mats, copyOf, i, j, count_step>>

\* const sparse_matrix<int> m2 = matrix
MainCopy ==
  /\ pc = "copy"
  /\ mats' = With(mats, "m2", mats["matrix"])
  /\ last' = Call("copy", "m2", default_value)
  /\ copyOf' = <<"matrix", "m2">>
  /\ it' = IterBegin(mats["matrix"])
  /\ pc' = "enum2"
  /\ UNCHANGED <<i, j, count_step>>

\* for (const auto cit : m2): the traversal of the copy, from its first node
\* to its end.
MainEnum2 ==
  /\ pc = "enum2"
  /\ IF it # IterEnd(mats["m2"])
     THEN /\ last' = Call("elem", "m2", IterDeref(mats["m2"], it))
          /\ it' = IterNext(it)
          /\ pc' = pc
     ELSE /\ last' = last
          /\ it' = 0
          /\ pc' = "clear"
  /\ UNCHANGED <<mats, copyOf, i, j, count_step>>

\* matrix.clear(); sparse_matrix<int> matrix2
MainClear ==
  /\ pc = "clear"
  /\ mats' = With([mats EXCEPT !["matrix"] = <<>>], "matrix2", <<>>)
  /\ last' = Call("construct", "matrix2", default_value)
  /\ pc' = "bonus"
  /\ UNCHANGED <<copyOf, i, j, it, count_step>>

\* matrix2[i + 1][j] = 8; matrix2[i][j + 1] = 8; ++count_step
MainBonus ==
  /\ pc = "bonus"
  /\ mats' = TerminalAssign(
                TerminalAssign(mats, Proxy("matrix2", <<i + 1, j>>), 8),
                Proxy("matrix2", <<i, j + 1>>), 8)
  /\ last' = Call("assign", "matrix2", default_value)
  /\ count_step' = count_step + 1
  /\ IF j + 2 < num_elem
     THEN j' = j + 2 /\ i' = i /\ pc' = pc
     ELSE IF i + 2 < num_elem
          THEN j' = 0 /\ i' = i + 2 /\ pc' = pc
          ELSE j' = 0 /\ i' = 0 /\ pc' = "print2"
  /\ UNCHANGED <<copyOf, it>>

\* std::cout << matrix2[i][j] for i, j below m_size
MainPrint2 ==
  /\ pc = "print2"
  /\ last' = Call("read", "matrix2", TerminalRead(mats, Proxy("matrix2", <<i, j>>)))
  /\ IF j + 1 < m_size
     THEN j' = j + 1 /\ i' = i /\ pc' = pc
     ELSE IF i + 1 < m_size
          THEN j' = 0 /\ i' = i + 1 /\ pc' = pc
          ELSE j' = 0 /\ i' = 0 /\ pc' = "count"
  /\ UNCHANGED <<mats, copyOf, it, count_step>>

\* std::cout << "Count step: " << count_step; return 0
MainCount ==
  /\ pc = "count"
  /\ last' = Call("count", "matrix2", count_step)
  /\ pc' = "done"
  /\ UNCHANGED <<mats, copyOf, i, j, it, count_step>>

NextMain ==
  \/ MainDiag
  \/ MainAnti
  \/ MainRange
  \/ MainSize
  \/ MainEnum1
  \/ MainCopy
  \/ MainEnum2
  \/ MainClear
  \/ MainBonus
  \/ MainPrint2
  \/ MainCount

SpecMain == InitMain /\ [][NextMain]_vars

TypeOK ==
  /\ \A m \in DOMAIN mats :
        /\ \A p \in 1..Len(mats[m]) :
              mats[m][p].first \in index_t /\ mats[m][p].second \in Value
        /\ \A p \in 1..(Len(mats[m]) - 1) :
              TupleLess(mats[m][p].first, mats[m][p + 1].first)

\* ---- what the claims speak of ----------------------------------------------

\* The stored (coordinate, value) pairs of a container.
Entries(d) == {d[p] : p \in 1..Len(d)}

HasEntry(d, c) == \E n \in Entries(d) : n.first = c

StoredValue(d, c) == (CHOOSE n \in Entries(d) : n.first = c).second

\* Explicit cells: the stored pairs whose value differs from the default.
ExplicitCells(d) == {n \in Entries(d) : n.second # default_value}

\* The coordinate of an enumerated tuple.
CoordOf(t) == SubSeq(t, 1, matrix_size)

\* How many elements of an enumeration carry coordinate c.
Occurrences(e, c) == Cardinality({p \in 1..Len(e) : CoordOf(e[p]) = c})

\* Lexicographic order, stated from the first position where x and y differ.
LexLess(x, y) ==
  /\ x # y
  /\ LET differ == {k \in 1..Len(x) : x[k] # y[k]}
         k0 == CHOOSE k \in differ : \A n \in differ : k <= n
     IN  x[k0] < y[k0]

\* ---- the claims -------------------------------------------------------------

\* C1: in every reachable state no stored entry has a value equal to the
\* default value.
C1_NoDefaultStored ==
  \A m \in DOMAIN mats :
     \A n \in Entries(mats[m]) : n.second # default_value

\* C2: after m[c] = v with v different from the default, reading m[c] returns
\* v, c appears exactly once in a full enumeration, and size() is one more
\* than before if c had no entry and unchanged if it had one.
C2_AssignNonDefault ==
  [][last'.op = "assign" =>
       \A c \in index_t, v \in Value \ {default_value} :
          Assign(last'.m, c, v) =>
            /\ TerminalRead(mats', Proxy(last'.m, c)) = v
            /\ Occurrences(Enumerate(mats'[last'.m]), c) = 1
            /\ Size(mats'[last'.m]) = IF HasEntry(mats[last'.m], c)
                                      THEN Size(mats[last'.m])
                                      ELSE Size(mats[last'.m]) + 1]_vars

C2_Witness ==
  /\ last.op = "assign"
  /\ Size(mats["a"]) > 1
  /\ \A n \in Entries(mats["a"]) : n.second # default_value

\* C3: after assigning the default to m[c], reading m[c] returns the default,
\* c has no stored entry, and size() is unchanged if c had no entry before and
\* one less if it had one.
C3_AssignDefault ==
  [][last'.op = "assign" =>
       \A c \in index_t :
          Assign(last'.m, c, default_value) =>
            /\ TerminalRead(mats', Proxy(last'.m, c)) = default_value
            /\ ~HasEntry(mats'[last'.m], c)
            /\ Size(mats'[last'.m]) = IF HasEntry(mats[last'.m], c)
                                      THEN Size(mats[last'.m]) - 1
                                      ELSE Size(mats[last'.m])]_vars

C3_Witness ==
  /\ last.op = "assign"
  /\ Size(mats["a"]) = 0

\* C4: a read through the chained index returns the stored value if the
\* coordinate has an entry and the default otherwise, and leaves the stored
\* pairs and size() of every matrix as they were.
C4_ReadPure ==
  [][last'.op = "read" =>
       \A c \in index_t :
          Read(last'.m, c) =>
            /\ last'.ret = IF HasEntry(mats[last'.m], c)
                           THEN StoredValue(mats[last'.m], c)
                           ELSE default_value
            /\ Entries(mats'[last'.m]) = Entries(mats[last'.m])
            /\ Size(mats'[last'.m]) = Size(mats[last'.m])
            /\ mats' = mats]_vars

C4_Witness ==
  /\ last.op = "read"
  /\ last.ret # default_value
  /\ Size(mats["a"]) > 1

\* C5 (as claimed): after the two loops of scenario A, size() == 20.
C5_Size20 ==
  pc \in {"range", "size"} => Size(mats["matrix"]) = 2 * num_elem

\* C5 (amended): after the two loops of scenario A, size() == 18: the writes
\* m[0][0] = 0 and m[9][0] = 0 assign the default and store nothing.
C5_Size18 ==
  pc \in {"range", "size"} => Size(mats["matrix"]) = 2 * (num_elem - 1)

C5_Witness ==
  /\ pc = "size"
  /\ TerminalRead(mats, Proxy("matrix", <<1, 1>>)) = 1
  /\ TerminalRead(mats, Proxy("matrix", <<0, num_elem - 1>>)) = num_elem - 1

\* C6: a full enumeration yields the stored cells in strictly ascending
\* lexicographic coordinate order, and is determined by the set of stored
\* pairs alone: it lists exactly that set, each pair once.
C6_EnumerationOrder ==
  \A m \in DOMAIN mats :
     LET e == Enumerate(mats[m])
     IN  /\ \A p \in 1..(Len(e) - 1) : LexLess(CoordOf(e[p]), CoordOf(e[p + 1]))
         /\ {e[p] : p \in 1..Len(e)} =
               {n.first \o <<n.second>> : n \in Entries(mats[m])}
         /\ Len(e) = Cardinality(Entries(mats[m]))

C6_Witness ==
  /\ HasEntry(mats["a"], <<0, 1>>)
  /\ HasEntry(mats["a"], <<1, 0>>)

\* C7: a == b is true if and only if a and b hold the same explicit cells,
\* the coordinates whose stored value differs from the default, each with the
\* same value.
C7_EqIffSameExplicitCells ==
  \A a \in DOMAIN mats, b \in DOMAIN mats :
     OpEq(mats[a], mats[b]) <=> (ExplicitCells(mats[a]) = ExplicitCells(mats[b]))

\* C8: a copy holds exactly the source's stored entries, and an assignment or
\* clear() on one matrix leaves the stored entries, size() and every read of
\* the other matrix unchanged.
C8_CopyIndependence ==
  [][/\ last'.op = "copy" =>
          \A src \in Names :
             (CopyConstruct(src, last'.m) \/ CopyAssign(src, last'.m)) =>
               /\ Entries(mats'[last'.m]) = Entries(mats[src])
               /\ Size(mats'[last'.m]) = Size(mats[src])
               /\ \A n \in (DOMAIN mats) \ {last'.m} : mats'[n] = mats[n]
     /\ last'.op \in {"assign", "clear"} =>
          \A n \in (DOMAIN mats) \ {last'.m} :
             /\ Entries(mats'[n]) = Entries(mats[n])
             /\ Size(mats'[n]) = Size(mats[n])
             /\ \A x \in index_t :
                   TerminalRead(mats', Proxy(n, x)) = TerminalRead(mats, Proxy(n, x))]_vars

C8_Witness ==
  /\ copyOf = <<"a", "b">>
  /\ last.op \in {"assign", "clear"}
  /\ last.m = "b"
  /\ Size(mats["a"]) > 0
  /\ mats["a"] # mats["b"]

\* C9: after a move from a matrix s into another matrix d, d holds exactly the
\* stored entries s held before, s.size() == 0 and every read of s returns the
\* default.
C9_MoveEmptiesSource ==
  [][last'.op = "move" =>
       \A s \in Names \ {last'.m} :
          (MoveConstruct(s, last'.m) \/ MoveAssign(s, last'.m)) =>
            /\ mats'[last'.m] = mats[s]
            /\ Size(mats'[s]) = 0
            /\ \A x \in index_t :
                  TerminalRead(mats', Proxy(s, x)) = default_value]_vars

C9_Witness ==
  /\ last.op = "move"
  /\ DOMAIN mats = Names
  /\ Size(mats[last.m]) > 0
  /\ \A n \in Names \ {last.m} : Size(mats[n]) = 0

\* C10: a write through the value position of an element of the mutable
\* traversal replaces the stored value in place without elision: the
\* coordinates and size() stay, and when the value written is the default the
\* entry stays in the store, is still enumerated and reads as the default.
C10_IterWriteNoElision ==
  [][last'.op = "iterwrite" =>
       \A k \in 1..Len(mats[last'.m]), v \in Value :
          IterWrite(last'.m, k, v) =>
            /\ Size(mats'[last'.m]) = Size(mats[last'.m])
            /\ \A p \in 1..Len(mats[last'.m]) :
                  /\ mats'[last'.m][p].first = mats[last'.m][p].first
                  /\ mats'[last'.m][p].second =
                        IF p = k THEN v ELSE mats[last'.m][p].second
            /\ HasEntry(mats'[last'.m], mats[last'.m][k].first)
            /\ Occurrences(Enumerate(mats'[last'.m]), mats[last'.m][k].first) = 1
            /\ TerminalRead(mats', Proxy(last'.m, mats[last'.m][k].first)) = v]_vars

C10_Witness ==
  /\ last.op = "iterwrite"
  /\ \E n \in Entries(mats["a"]) : n.second = default_value

============================================================================
